---- MODULE Spec2Model ----
\* Document analysis pipeline, analysis normalizer and row-level-secured
\* persistence of the lawbit application, as a state machine.
EXTENDS Integers, Sequences, FiniteSets, TLC

VARIABLES
    session,     \* id of the signed-in user of the supabase client, or NoUser
    documents,   \* table public.documents: partial function id -> row
    contracts,   \* table public.contracts: partial function id -> row
    calls,       \* one record per analyzeDocument / retryAnalysis invocation slot
    impl,        \* which analyzeDocument the build links: "gemini" or "openai"
    lastOp,      \* the last persistence-adapter operation and what it returned
    ptext,       \* extraction harness: the raw model text
    pstage,      \* extraction harness: position
    pmatch,      \* extraction harness: result of text.match(...)
    pobj,        \* extraction harness: result of JSON.parse(jsonMatch[0])
    nin,         \* normalizer harness: the decoded model output
    nstage,      \* normalizer harness: position
    nout,        \* normalizer harness: result
    gen,         \* the invocation of generateBothContracts and its two requests
    ui,          \* state of EnhancedContractForm and ContractPreview
    creation,    \* the document creation in progress and what it gave its caller
    form         \* EnhancedContractForm on its last field and its createContract calls

vars == <<session, impl, documents, contracts, calls, lastOp,
          ptext, pstage, pmatch, pobj, nin, nstage, nout, gen, ui, creation, form>>

mainVars == <<session, impl, documents, contracts, calls, lastOp>>
extractVars == <<ptext, pstage, pmatch, pobj>>
normVars == <<nin, nstage, nout>>
flowVars == <<gen, ui, creation, form>>

-----------------------------------------------------------------------------
\* Bounds of the model.

MaxDocs == 1
MaxCrudDocs == 2
MaxContracts == 1
MaxCalls == 2
MaxTextLen == 5
MaxFindings == 1
MaxFlowContracts == 2
MaxSubmits == 2

-----------------------------------------------------------------------------
\* JavaScript values as they come out of JSON.parse.  A missing property reads
\* as Undefined.  Field s holds a string, n a number, a the elements of an
\* array of strings.

Undefined == [t |-> "undefined", s |-> "", n |-> 0, a |-> <<>>]
Null == [t |-> "null", s |-> "", n |-> 0, a |-> <<>>]
Str(x) == [t |-> "string", s |-> x, n |-> 0, a |-> <<>>]
Num(k) == [t |-> "number", s |-> "", n |-> k, a |-> <<>>]
Arr(q) == [t |-> "array", s |-> "", n |-> 0, a |-> q]
Obj == [t |-> "object", s |-> "", n |-> 0, a |-> <<>>]

\* JavaScript truthiness (the left operand of ||, the operand of !).
Truthy(v) ==
    CASE v.t = "undefined" -> FALSE
      [] v.t = "null" -> FALSE
      [] v.t = "string" -> v.s # ""
      [] v.t = "number" -> v.n # 0
      [] OTHER -> TRUE

DigitChar(d) ==
    CASE d = 0 -> "0" [] d = 1 -> "1" [] d = 2 -> "2" [] d = 3 -> "3"
      [] d = 4 -> "4" [] d = 5 -> "5" [] d = 6 -> "6" [] d = 7 -> "7"
      [] d = 8 -> "8" [] OTHER -> "9"

RECURSIVE NatToString(_)
NatToString(k) ==
    IF k < 10 THEN DigitChar(k)
    ELSE NatToString(k \div 10) \o DigitChar(k % 10)

NumToString(k) == IF k < 0 THEN "-" \o NatToString(0 - k) ELSE NatToString(k)

RECURSIVE Join(_)
Join(q) ==
    IF Len(q) = 0 THEN ""
    ELSE IF Len(q) = 1 THEN q[1]
    ELSE q[1] \o "," \o Join(Tail(q))

\* String(v)
JsString(v) ==
    CASE v.t = "undefined" -> "undefined"
      [] v.t = "null" -> "null"
      [] v.t = "string" -> v.s
      [] v.t = "number" -> NumToString(v.n)
      [] v.t = "array" -> Join(v.a)
      [] OTHER -> "[object Object]"

\* An element of the findings array: a primitive (t, s, n) or an object with
\* the three properties of a finding, each of which may hold any value.
ElemPrim(v) ==
    [t |-> v.t, s |-> v.s, n |-> v.n,
     text |-> Undefined, riskLevel |-> Undefined, suggestions |-> Undefined]
ElemObj(tx, rl, sg) ==
    [t |-> "object", s |-> "", n |-> 0,
     text |-> tx, riskLevel |-> rl, suggestions |-> sg]

\* String(finding)
ElemToString(e) == JsString([t |-> e.t, s |-> e.s, n |-> e.n, a |-> <<>>])

\* The value of the findings property: an array of elements, or anything else.
FindingsArr(q) == [t |-> "array", s |-> "", elems |-> q]
FindingsOther(v) == [t |-> v.t, s |-> v.s, elems |-> <<>>]

RiskLevels == {"low", "medium", "high"}

-----------------------------------------------------------------------------
\* Model text.  A text is a sequence of tokens: the two braces, "p" (any
\* character of prose that is not a brace) and member tokens, each standing
\* for one well-formed  "key": value  member of a JSON object.

MemberTable ==
    [F_ok   |-> [f |-> "findings", v |-> Undefined,
                 fv |-> FindingsArr(<<ElemObj(Str("Clause 4 is vague"), Str("high"),
                                             Arr(<<"Define the term">>))>>)],
     F_str  |-> [f |-> "findings", v |-> Undefined,
                 fv |-> FindingsArr(<<ElemPrim(Str("Missing termination clause"))>>)],
     F_bad  |-> [f |-> "findings", v |-> Undefined,
                 fv |-> FindingsArr(<<ElemObj(Num(7), Str("critical"), Str("none"))>>)],
     F_null |-> [f |-> "findings", v |-> Undefined,
                 fv |-> FindingsArr(<<ElemPrim(Null)>>)],
     F_none |-> [f |-> "findings", v |-> Undefined,
                 fv |-> FindingsOther(Str("none"))],
     L_low  |-> [f |-> "riskLevel", v |-> Str("low"), fv |-> FindingsOther(Undefined)],
     L_crit |-> [f |-> "riskLevel", v |-> Str("critical"), fv |-> FindingsOther(Undefined)],
     S_10   |-> [f |-> "riskScore", v |-> Num(10), fv |-> FindingsOther(Undefined)],
     S_150  |-> [f |-> "riskScore", v |-> Num(150), fv |-> FindingsOther(Undefined)],
     S_str  |-> [f |-> "riskScore", v |-> Str("high"), fv |-> FindingsOther(Undefined)],
     R_txt  |-> [f |-> "recommendations", v |-> Str("Review clause 4"),
                 fv |-> FindingsOther(Undefined)],
     R_null |-> [f |-> "recommendations", v |-> Null, fv |-> FindingsOther(Undefined)]]

MemberTokens == DOMAIN MemberTable

\* Variant of MatchEnd for the lazy pattern /\{[\s\S]*?\}/: the nearest "}".
MatchEndLazy(text, i) ==
    IF text[i] # "{" THEN 0
    ELSE LET ends == {j \in (i + 1)..Len(text) : text[j] = "}"}
         IN IF ends = {} THEN 0
            ELSE CHOOSE j \in ends : \A k \in ends : j <= k

\* text.match(/\{[\s\S]*\}/) started at position i: the regex needs "{" at i,
\* then [\s\S]* takes as many characters as it can and gives them back one by
\* one until "}" follows.  0 when no match starts at i.
MatchEnd(text, i) ==
    IF text[i] # "{" THEN 0
    ELSE LET ends == {j \in (i + 1)..Len(text) : text[j] = "}"}
         IN IF ends = {} THEN 0
            ELSE CHOOSE j \in ends : \A k \in ends : k <= j

\* text.match(/\{[\s\S]*\}/): the match at the leftmost position that has one.
JsonMatch(text) ==
    LET starts == {i \in 1..Len(text) : MatchEnd(text, i) # 0}
    IN IF starts = {} THEN [found |-> FALSE, m |-> <<>>]
       ELSE LET i == CHOOSE x \in starts : \A y \in starts : x <= y
            IN [found |-> TRUE, m |-> SubSeq(text, i, MatchEnd(text, i))]

\* The last member of the object text that sets field f (JSON.parse keeps the
\* last of duplicate keys); 0 when there is none.
LastMember(sub, f) ==
    LET at == {i \in 2..(Len(sub) - 1) : MemberTable[sub[i]].f = f}
    IN IF at = {} THEN 0 ELSE CHOOSE i \in at : \A k \in at : k <= i

MemberVal(sub, f) ==
    IF LastMember(sub, f) = 0 THEN Undefined
    ELSE MemberTable[sub[LastMember(sub, f)]].v

\* JSON.parse(jsonMatch[0]): an object text is "{", members, "}".
JsonParse(sub) ==
    IF /\ Len(sub) >= 2
       /\ sub[1] = "{"
       /\ sub[Len(sub)] = "}"
       /\ \A i \in 2..(Len(sub) - 1) : sub[i] \in MemberTokens
    THEN [ok |-> TRUE,
          obj |-> [findings |->
                       IF LastMember(sub, "findings") = 0
                       THEN FindingsOther(Undefined)
                       ELSE MemberTable[sub[LastMember(sub, "findings")]].fv,
                   riskLevel |-> MemberVal(sub, "riskLevel"),
                   riskScore |-> MemberVal(sub, "riskScore"),
                   recommendations |-> MemberVal(sub, "recommendations")]]
    ELSE [ok |-> FALSE,
          obj |-> [findings |-> FindingsOther(Undefined), riskLevel |-> Undefined,
                   riskScore |-> Undefined, recommendations |-> Undefined]]

NoAnalysis == JsonParse(<<>>).obj

-----------------------------------------------------------------------------
\* The analysis normalizer of documentAnalysis.ts (Gemini variant).

\* finding.text, finding.riskLevel, finding.suggestions throw a TypeError when
\* finding is null.
FindingThrows(e) == e.t \in {"null", "undefined"}

\* Variant of FindingText: finding.text || 'Unknown finding'
FindingTextUnknown(e) == IF Truthy(e.text) THEN e.text ELSE Str("Unknown finding")

\* text: finding.text || String(finding)
FindingText(e) == IF Truthy(e.text) THEN e.text ELSE Str(ElemToString(e))

\* riskLevel: finding.riskLevel || 'medium'
FindingRiskLevel(e) == IF Truthy(e.riskLevel) THEN e.riskLevel ELSE Str("medium")

\* suggestions: Array.isArray(finding.suggestions) ? finding.suggestions : []
FindingSuggestions(e) ==
    IF e.suggestions.t = "array" THEN e.suggestions ELSE Arr(<<>>)

NormalizeFinding(e) ==
    ElemObj(FindingText(e), FindingRiskLevel(e), FindingSuggestions(e))

\* if (!['low', 'medium', 'high'].includes(analysis.riskLevel)) ... = 'medium'
NormalizeRiskLevel(v) ==
    IF v.t = "string" /\ v.s \in RiskLevels THEN v ELSE Str("medium")

DefaultRiskScore == 50

\* if (typeof riskScore !== 'number' || riskScore < 0 || riskScore > 100) ... = 50
NormalizeRiskScore(v) ==
    IF v.t # "number" \/ v.n < 0 \/ v.n > 100 THEN Num(DefaultRiskScore) ELSE v

\* if (typeof recommendations !== 'string') ... = String(recommendations)
NormalizeRecommendations(v) == IF v.t # "string" THEN Str(JsString(v)) ELSE v

\* Lines 70-95 on a decoded object.  inner is the message of the error thrown
\* inside the try block.
NormalizeAnalysis(obj) ==
    IF obj.findings.t # "array"
    THEN [ok |-> FALSE, inner |-> "Invalid findings format", analysis |-> NoAnalysis]
    ELSE IF \E i \in 1..Len(obj.findings.elems) : FindingThrows(obj.findings.elems[i])
    THEN [ok |-> FALSE, inner |-> "TypeError", analysis |-> NoAnalysis]
    ELSE [ok |-> TRUE, inner |-> "",
          analysis |->
              [findings |-> FindingsArr([i \in 1..Len(obj.findings.elems) |->
                                NormalizeFinding(obj.findings.elems[i])]),
               riskLevel |-> NormalizeRiskLevel(obj.riskLevel),
               riskScore |-> NormalizeRiskScore(obj.riskScore),
               recommendations |-> NormalizeRecommendations(obj.recommendations)]]

\* The whole inner try block of the Gemini variant (lines 61-99) on a text.
ParseGemini(text) ==
    LET m == JsonMatch(text) IN
    IF ~m.found
    THEN [ok |-> FALSE, inner |-> "Could not extract JSON from Gemini response",
          analysis |-> NoAnalysis]
    ELSE IF ~JsonParse(m.m).ok
    THEN [ok |-> FALSE, inner |-> "SyntaxError", analysis |-> NoAnalysis]
    ELSE NormalizeAnalysis(JsonParse(m.m).obj)

\* The inner try block of the OpenAI variant: extraction and decoding only.
ParseOpenAI(text) ==
    LET m == JsonMatch(text) IN
    IF ~m.found
    THEN [ok |-> FALSE, inner |-> "Could not extract JSON from OpenAI response",
          analysis |-> NoAnalysis]
    ELSE IF ~JsonParse(m.m).ok
    THEN [ok |-> FALSE, inner |-> "SyntaxError", analysis |-> NoAnalysis]
    ELSE [ok |-> TRUE, inner |-> "", analysis |-> JsonParse(m.m).obj]

\* Variant of ParseFailedMessage: throw new Error() without a message.
ParseFailedNoMessage == ""

\* catch (error) { throw new Error('Failed to parse analysis results') }
ParseFailedMessage == "Failed to parse analysis results"

\* documentService.createDocument / updateDocument: formatting of one finding.
\* 'text' in finding throws for null (typeof null === 'object').
FormatThrows(e) == e.t = "null"

HasAllKeys(e) ==
    /\ e.t = "object"
    /\ e.text.t # "undefined"
    /\ e.riskLevel.t # "undefined"
    /\ e.suggestions.t # "undefined"

FormatFinding(e) ==
    IF HasAllKeys(e) THEN e
    ELSE ElemObj(IF e.t = "string" THEN Str(e.s) ELSE Str("Unknown finding"),
                 Str("medium"), Arr(<<>>))

\* documentData.findings?.map(...) || [] of documentService.createDocument;
\* .map of a value that is neither an array nor null/undefined throws.
FormatFindings(fv) ==
    IF fv.t # "array"
    THEN [ok |-> fv.t \in {"undefined", "null"}, findings |-> FindingsArr(<<>>)]
    ELSE IF \E i \in 1..Len(fv.elems) : FormatThrows(fv.elems[i])
    THEN [ok |-> FALSE, findings |-> FindingsArr(<<>>)]
    ELSE [ok |-> TRUE,
          findings |-> FindingsArr([i \in 1..Len(fv.elems) |-> FormatFinding(fv.elems[i])])]

-----------------------------------------------------------------------------
\* Users, tables and row-level security.

Users == {"u1", "u2"}
NoUser == "anon"

DocIds == 1..MaxDocs
CrudDocIds == 1..MaxCrudDocs
ContractIds == 1..MaxContracts
CallIds == 1..MaxCalls

\* A column holds NULL where the inserted object has no value for it.
DbVal(v) == IF v.t = "undefined" THEN Null ELSE v
DbFindings(fv) == IF fv.t = "undefined" THEN FindingsOther(Null) ELSE fv

\* Policies of public.contracts: USING / WITH CHECK (auth.uid() = user_id).
\* auth.uid() is NULL without a session and NULL = user_id is not true.
\* ContractsSelectAll is the SELECT policy USING (true).
ContractsSelectAll(uid, row) == TRUE
ContractsSelectPolicy(uid, row) == uid # NoUser /\ uid = row.user_id
ContractsUpdatePolicy(uid, row) == uid # NoUser /\ uid = row.user_id
ContractsDeletePolicy(uid, row) == uid # NoUser /\ uid = row.user_id
ContractsInsertPolicy(uid, row) == uid # NoUser /\ uid = row.user_id

\* Policies of public.documents: rows are restricted to user_id = caller.
DocumentsSelectPolicy(uid, row) == uid # NoUser /\ uid = row.user_id
DocumentsUpdatePolicy(uid, row) == uid # NoUser /\ uid = row.user_id
DocumentsDeletePolicy(uid, row) == uid # NoUser /\ uid = row.user_id
DocumentsInsertPolicy(uid, row) == uid # NoUser /\ uid = row.user_id

\* supabase.from('documents').update(payload).eq('id', id) as the backend
\* applies it: the row must exist and pass the UPDATE policy; properties that
\* are undefined are not sent and leave their column alone.
DocVisible(id) == id \in DOMAIN documents /\ DocumentsUpdatePolicy(session, documents[id])

StatusPayload(st) ==
    [status |-> Str(st), risk_level |-> Undefined, risk_score |-> Undefined,
     findings |-> FindingsOther(Undefined), recommendations |-> Undefined,
     error |-> Undefined, title |-> Undefined, content |-> Undefined]

ApplyDocUpdate(row, p) ==
    [user_id |-> row.user_id,
     title |-> IF p.title.t = "undefined" THEN row.title ELSE p.title,
     content |-> IF p.content.t = "undefined" THEN row.content ELSE p.content,
     status |-> IF p.status.t = "undefined" THEN row.status ELSE p.status,
     risk_level |-> IF p.risk_level.t = "undefined" THEN row.risk_level ELSE p.risk_level,
     risk_score |-> IF p.risk_score.t = "undefined" THEN row.risk_score ELSE p.risk_score,
     findings |-> IF p.findings.t = "undefined" THEN row.findings ELSE p.findings,
     recommendations |-> IF p.recommendations.t = "undefined" THEN row.recommendations
                         ELSE p.recommendations,
     error |-> IF p.error.t = "undefined" THEN row.error ELSE p.error]

\* update({ status: 'analyzing' })
\* Variant of AnalyzingPayload that stores the content argument as well:
\* update({ status: 'analyzing', content })
AnalyzingPayloadWithContent ==
    [StatusPayload("analyzing") EXCEPT !.content = Str("This agreement ...")]

AnalyzingPayload == StatusPayload("analyzing")

\* update({ status: 'completed', risk_level, risk_score, findings, recommendations })
CompletedPayload(an) ==
    [StatusPayload("completed") EXCEPT
        !.risk_level = an.riskLevel,
        !.risk_score = an.riskScore,
        !.findings = an.findings,
        !.recommendations = an.recommendations]

\* error instanceof Error ? error.message : 'An unknown error occurred'
UnknownErrorMessage == "An unknown error occurred"

\* Variant of ErrorPayload that records the message and forgets the status.
ErrorPayloadWithoutStatus(msg) ==
    [StatusPayload("error") EXCEPT !.status = Undefined, !.error = Str(msg)]

\* update({ status: 'error', error: message })
ErrorPayload(msg) == [StatusPayload("error") EXCEPT !.error = Str(msg)]

-----------------------------------------------------------------------------
\* analyzeDocument(documentId, content) and retryAnalysis(id) as processes.
\* pc: idle -> marking -> generating -> completing | failing -> done.
\* A finished slot (done) keeps the outcome of its call and can start again.
\* text is the provider's answer; a call that completed drops it.  cause is
\* what sent the call into its catch block: "provider", "parse" or "write".
\* requests counts the requests the call has sent to the provider.

IdleCall ==
    [pc |-> "idle", doc |-> 0, text |-> <<>>, err |-> "", cause |-> "",
     requests |-> 0, lastApplied |-> FALSE, result |-> ""]

Variants == {"gemini", "openai"}

\* What the provider may answer.
ModelTexts ==
    {<<"p", "{", "F_ok", "L_low", "S_10", "R_txt", "}", "p">>,
     <<"{", "F_bad", "L_crit", "S_150", "}">>,
     <<"p", "p">>,
     <<"{", "F_none", "L_low", "S_10", "R_txt", "}">>}

\* The inner try block of the variant the build links.
ParseOf(variant, text) ==
    IF variant = "gemini" THEN ParseGemini(text) ELSE ParseOpenAI(text)

\* Message of a failed provider request.
ProviderMessage(variant) ==
    IF variant = "openai" THEN "No response from OpenAI" ELSE "Gemini request failed"

CanStart(c) == calls[c].pc \in {"idle", "done"}

\* A write of the call as the backend applies it (ok: the backend accepts the
\* request).  The row changes only if it exists and passes the UPDATE policy.
WriteApplies(c, ok) == ok /\ DocVisible(calls[c].doc)

\* Variant of CallWrite whose update is conditional on the status the call
\* expects: .eq('status', 'analyzing') for the terminal writes.
CallWriteIfAnalyzing(c, ok, payload) ==
    IF WriteApplies(c, ok)
       /\ (payload.status = Str("analyzing")
              \/ documents[calls[c].doc].status = Str("analyzing"))
    THEN documents' = [documents EXCEPT
                          ![calls[c].doc] = ApplyDocUpdate(documents[calls[c].doc], payload)]
    ELSE UNCHANGED documents

CallWrite(c, ok, payload) ==
    IF WriteApplies(c, ok)
    THEN documents' = [documents EXCEPT
                          ![calls[c].doc] = ApplyDocUpdate(documents[calls[c].doc], payload)]
    ELSE UNCHANGED documents

\* A direct call of analyzeDocument (DocumentAnalysisView.handleRetryAnalysis):
\* the caller passes the id and the body it holds.
AnalyzeStart(c, d) ==
    /\ CanStart(c)
    /\ calls' = [calls EXCEPT ![c] = [IdleCall EXCEPT !.pc = "marking", !.doc = d]]
    /\ UNCHANGED <<session, impl, documents, contracts, lastOp>>

\* Variant of HasNoContent: if (document.content === null)
HasNullContent(row) == row.content.t = "null"

\* if (!document.content)
HasNoContent(row) == ~Truthy(row.content)

NoContentMessage == "Document has no content to analyze"

\* documentService.retryAnalysis(id): getDocument(id), the content check, then
\* analyzeDocument(id, document.content).
RetryAnalysis(c, d, ok) ==
    /\ CanStart(c)
    /\ calls' = [calls EXCEPT ![c] =
          IF ~(ok /\ d \in DOMAIN documents /\ DocumentsSelectPolicy(session, documents[d]))
          THEN [IdleCall EXCEPT !.pc = "done", !.doc = d, !.result = "threw",
                                !.err = "select failed"]
          ELSE IF HasNoContent(documents[d])
          THEN [IdleCall EXCEPT !.pc = "done", !.doc = d, !.result = "threw",
                                !.err = NoContentMessage]
          ELSE [IdleCall EXCEPT !.pc = "marking", !.doc = d]]
    /\ UNCHANGED <<session, impl, documents, contracts, lastOp>>

\* await supabase.from('documents').update({ status: 'analyzing' }).eq('id', id)
\* The returned error is not looked at.  The prompt is built and the one
\* request of the call goes to the provider.
WriteAnalyzing(c, ok) ==
    /\ calls[c].pc = "marking"
    /\ CallWrite(c, ok, AnalyzingPayload)
    /\ calls' = [calls EXCEPT ![c].pc = "generating", ![c].requests = @ + 1]
    /\ UNCHANGED <<session, impl, contracts, lastOp>>

\* The provider answers with a text; the inner try block runs on it.
ProviderRespond(c, text) ==
    /\ calls[c].pc = "generating"
    /\ calls' = [calls EXCEPT
          ![c].text = text,
          ![c].pc = IF ParseOf(impl, text).ok THEN "completing" ELSE "failing",
          ![c].err = IF ParseOf(impl, text).ok THEN "" ELSE ParseFailedMessage,
          ![c].cause = IF ParseOf(impl, text).ok THEN "" ELSE "parse"]
    /\ UNCHANGED <<session, impl, documents, contracts, lastOp>>

\* The provider's answer holds no choices or candidates.  The OpenAI variant
\* throws 'No response from OpenAI' (part_000 lines 54-56).  The Gemini variant
\* calls response.text() without looking at the candidates: the accessor
\* throws, or gives the empty text, which then goes through the try block.
ProviderEmpty(c, throws) ==
    /\ calls[c].pc = "generating"
    /\ calls' = [calls EXCEPT
          ![c].pc = "failing",
          ![c].err = IF impl = "openai" \/ throws THEN ProviderMessage(impl)
                     ELSE ParseFailedMessage,
          ![c].cause = IF impl = "openai" \/ throws THEN "provider" ELSE "parse"]
    /\ UNCHANGED <<session, impl, documents, contracts, lastOp>>

\* Variant of ProviderFail that sends the request once more before giving up.
ProviderFailRetry(c) ==
    /\ calls[c].pc = "generating"
    /\ calls' = IF calls[c].requests < 2
                THEN [calls EXCEPT ![c].requests = @ + 1]
                ELSE [calls EXCEPT ![c].pc = "failing", ![c].err = ProviderMessage(impl),
                                   ![c].cause = "provider"]
    /\ UNCHANGED <<session, impl, documents, contracts, lastOp>>

\* The provider request throws.
ProviderFail(c) ==
    /\ calls[c].pc = "generating"
    /\ calls' = [calls EXCEPT ![c].pc = "failing", ![c].err = ProviderMessage(impl),
                              ![c].cause = "provider"]
    /\ UNCHANGED <<session, impl, documents, contracts, lastOp>>

\* update({ status: 'completed', ... }); if (updateError) throw updateError.
\* updateError is a plain object, so the catch block records the
\* unknown-error message for it.
\* Variant of WriteCompleted that throws after the write whatever its result:
\* if (updateError) without the test.
WriteCompletedThenThrow(c, ok) ==
    /\ calls[c].pc = "completing"
    /\ CallWrite(c, ok, CompletedPayload(ParseOf(impl, calls[c].text).analysis))
    /\ calls' = [calls EXCEPT
          ![c].pc = "failing",
          ![c].text = <<>>,
          ![c].err = UnknownErrorMessage,
          ![c].cause = "write",
          ![c].lastApplied = WriteApplies(c, ok)]
    /\ UNCHANGED <<session, impl, contracts, lastOp>>

WriteCompleted(c, ok) ==
    /\ calls[c].pc = "completing"
    /\ CallWrite(c, ok, CompletedPayload(ParseOf(impl, calls[c].text).analysis))
    /\ calls' = [calls EXCEPT
          ![c].pc = IF ok THEN "done" ELSE "failing",
          ![c].text = <<>>,
          ![c].result = IF ok THEN "returned" ELSE "",
          ![c].err = IF ok THEN "" ELSE UnknownErrorMessage,
          ![c].cause = IF ok THEN "" ELSE "write",
          ![c].lastApplied = WriteApplies(c, ok)]
    /\ UNCHANGED <<session, impl, contracts, lastOp>>

\* Variant of WriteError whose catch block ends without  throw error  unless
\* a write failed.
WriteErrorSwallow(c, ok) ==
    /\ calls[c].pc = "failing"
    /\ CallWrite(c, ok, ErrorPayload(calls[c].err))
    /\ calls' = [calls EXCEPT
          ![c].pc = "done",
          ![c].result = IF calls[c].cause = "write" \/ ~ok THEN "threw" ELSE "returned",
          ![c].lastApplied = WriteApplies(c, ok)]
    /\ UNCHANGED <<session, impl, contracts, lastOp>>

\* catch: update({ status: 'error', error: message }); throw error.
WriteError(c, ok) ==
    /\ calls[c].pc = "failing"
    /\ CallWrite(c, ok, ErrorPayload(calls[c].err))
    /\ calls' = [calls EXCEPT ![c].pc = "done", ![c].result = "threw",
                              ![c].lastApplied = WriteApplies(c, ok)]
    /\ UNCHANGED <<session, impl, contracts, lastOp>>

\* Variant of Stop with an unload handler that records the interruption.
StopWithCleanup(c) ==
    /\ calls[c].pc \in {"generating", "completing", "failing"}
    /\ CallWrite(c, TRUE, ErrorPayload("Analysis interrupted"))
    /\ calls' = [calls EXCEPT ![c].pc = "stopped", ![c].text = <<>>]
    /\ UNCHANGED <<session, impl, contracts, lastOp>>

\* The process running analyzeDocument stops (the tab is closed, the page is
\* reloaded) at an await after the analyzing write and before the terminal
\* write.  No handler runs: the call takes no further step.
Stop(c) ==
    /\ calls[c].pc \in {"generating", "completing", "failing"}
    /\ calls' = [calls EXCEPT ![c].pc = "stopped", ![c].text = <<>>]
    /\ UNCHANGED <<session, impl, documents, contracts, lastOp>>

-----------------------------------------------------------------------------
\* Session, creation and the persistence adapter (documentService,
\* contractService).  lastOp records the operation, the session user it ran
\* for, the owners of the rows it returned and whether it failed.

Op(name, owners, failed) ==
    [op |-> name, user |-> session, owners |-> owners, failed |-> failed]

SignIn(u) ==
    /\ session # u
    /\ session' = u
    /\ UNCHANGED <<impl, documents, contracts, calls, lastOp>>

SignOut ==
    /\ session # NoUser
    /\ session' = NoUser
    /\ UNCHANGED <<impl, documents, contracts, calls, lastOp>>

DocTitles == {"Pasted Document"}
DocBodies == {Str("This agreement ...")}

\* The row DocumentAnalysis.onSubmit inserts.
SubmittedRow(uid, title, content) ==
    [user_id |-> uid, title |-> Str(title), content |-> content,
     status |-> Str("analyzing"), risk_level |-> Null, risk_score |-> Null,
     findings |-> FindingsArr(<<>>), recommendations |-> Null, error |-> Null]

\* DocumentAnalysis.onSubmit: insert the row, then await analyzeDocument.
SubmitDocument(d, c, title, content, ok) ==
    /\ session # NoUser
    /\ Truthy(content)
    /\ d \notin DOMAIN documents
    /\ CanStart(c)
    /\ IF ok /\ DocumentsInsertPolicy(session, SubmittedRow(session, title, content))
       THEN /\ documents' = [x \in DOMAIN documents \cup {d} |->
                                IF x = d THEN SubmittedRow(session, title, content)
                                ELSE documents[x]]
            /\ calls' = [calls EXCEPT ![c] =
                            [IdleCall EXCEPT !.pc = "marking", !.doc = d]]
       ELSE UNCHANGED <<documents, calls>>
    /\ UNCHANGED <<session, impl, contracts, lastOp>>

\* documentData of documentService.createDocument(documentData).
DocumentDataInputs ==
    {[title |-> "Pasted Document", body |-> b, status |-> st,
      findings |-> FindingsOther(Undefined), riskLevel |-> Undefined,
      riskScore |-> Undefined, recommendations |-> Undefined, error |-> Undefined] :
        b \in {Undefined, Str("")}, st \in {Str("analyzing")}}

\* documentData of a caller that passes the fields of an analysed document.
AnalysedDataInputs ==
    {[title |-> "Imported Document", body |-> Str("This agreement ..."),
      status |-> Str("completed"),
      findings |-> FindingsArr(<<ElemObj(Str("Clause 4 is vague"), Str("high"),
                                         Arr(<<"Define the term">>))>>),
      riskLevel |-> Str("high"), riskScore |-> Num(80),
      recommendations |-> Str("Review clause 4"), error |-> Undefined]}

\* The dbDocument createDocument builds (lines 41-65).
DbDocument(uid, data) ==
    [user_id |-> uid, title |-> Str(data.title), content |-> DbVal(data.body),
     status |-> data.status, risk_level |-> DbVal(data.riskLevel),
     risk_score |-> DbVal(data.riskScore),
     findings |-> FormatFindings(data.findings).findings,
     recommendations |-> DbVal(data.recommendations), error |-> DbVal(data.error)]

\* documentService.createDocument(documentData), lines 36-75.
CreateDocument(d, data, ok) ==
    /\ d \notin DOMAIN documents
    /\ IF session = NoUser \/ ~ok
          \/ ~DocumentsInsertPolicy(session, DbDocument(session, data))
       THEN /\ UNCHANGED documents
            /\ lastOp' = Op("createDocument", {}, TRUE)
       ELSE /\ documents' = [x \in DOMAIN documents \cup {d} |->
                                IF x = d THEN DbDocument(session, data) ELSE documents[x]]
            /\ lastOp' = Op("createDocument", {session}, FALSE)
    /\ UNCHANGED <<session, impl, contracts, calls>>

\* documentService.getDocuments()
GetDocuments ==
    /\ lastOp' = Op("getDocuments",
                    {documents[d].user_id :
                        d \in {x \in DOMAIN documents :
                                  DocumentsSelectPolicy(session, documents[x])}},
                    FALSE)
    /\ UNCHANGED <<session, impl, documents, contracts, calls>>

\* documentService.getDocument(id): .single() fails unless one row comes back.
GetDocument(d) ==
    /\ lastOp' = IF d \in DOMAIN documents /\ DocumentsSelectPolicy(session, documents[d])
                 THEN Op("getDocument", {documents[d].user_id}, FALSE)
                 ELSE Op("getDocument", {}, TRUE)
    /\ UNCHANGED <<session, impl, documents, contracts, calls>>

\* updates of documentService.updateDocument(id, updates), as dbUpdates.
DocUpdateInputs ==
    {[StatusPayload("x") EXCEPT !.status = Undefined, !.title = Str("Renamed")],
     [StatusPayload("x") EXCEPT !.status = Undefined, !.content = Str("")]}

\* documentService.updateDocument(id, updates): update ... select().single().
UpdateDocument(d, p) ==
    /\ IF d \in DOMAIN documents
          /\ DocumentsUpdatePolicy(session, documents[d])
          /\ DocumentsUpdatePolicy(session, ApplyDocUpdate(documents[d], p))
       THEN /\ documents' = [documents EXCEPT ![d] = ApplyDocUpdate(documents[d], p)]
            /\ lastOp' = Op("updateDocument", {documents[d].user_id}, FALSE)
       ELSE /\ UNCHANGED documents
            /\ lastOp' = Op("updateDocument", {}, TRUE)
    /\ UNCHANGED <<session, impl, contracts, calls>>

\* documentService.deleteDocument(id): no error when no row matches.
DeleteDocument(d) ==
    /\ IF d \in DOMAIN documents /\ DocumentsDeletePolicy(session, documents[d])
       THEN /\ documents' = [x \in DOMAIN documents \ {d} |-> documents[x]]
       ELSE UNCHANGED documents
    /\ lastOp' = Op("deleteDocument", {}, FALSE)
    /\ UNCHANGED <<session, impl, contracts, calls>>

\* contractData of contractService.createContract; user_id "" stands for a
\* contractData without that property.
ContractDataInputs ==
    {[title |-> "NDA", content |-> "final text", user_id |-> u] : u \in {""} \cup Users}

\* Variant of ContractRow with the spread last: { user_id: user.id, ...contractData }
ContractRowCallerFirst(uid, data) ==
    [user_id |-> IF data.user_id = "" THEN uid ELSE data.user_id,
     title |-> data.title, content |-> data.content]

\* { ...contractData, user_id: user.id }
ContractRow(uid, data) ==
    [user_id |-> uid, title |-> data.title, content |-> data.content]

\* Variant of createContract without the user check, run with a key that
\* bypasses the row policies: user_id is taken from the session as it is.
CreateContractUnchecked(k, data, ok) ==
    /\ k \notin DOMAIN contracts
    /\ IF ~ok
       THEN /\ UNCHANGED contracts
            /\ lastOp' = Op("createContract", {}, TRUE)
       ELSE /\ contracts' = [x \in DOMAIN contracts \cup {k} |->
                                IF x = k THEN ContractRow(session, data) ELSE contracts[x]]
            /\ lastOp' = Op("createContract", {session}, FALSE)
    /\ UNCHANGED <<session, impl, documents, calls>>

\* contractService.createContract(contractData)
CreateContract(k, data, ok) ==
    /\ k \notin DOMAIN contracts
    /\ IF session = NoUser \/ ~ok
          \/ ~ContractsInsertPolicy(session, ContractRow(session, data))
       THEN /\ UNCHANGED contracts
            /\ lastOp' = Op("createContract", {}, TRUE)
       ELSE /\ contracts' = [x \in DOMAIN contracts \cup {k} |->
                                IF x = k THEN ContractRow(session, data) ELSE contracts[x]]
            /\ lastOp' = Op("createContract", {session}, FALSE)
    /\ UNCHANGED <<session, impl, documents, calls>>

\* contractService.getContracts()
GetContracts ==
    /\ lastOp' = Op("getContracts",
                    {contracts[k].user_id :
                        k \in {x \in DOMAIN contracts :
                                  ContractsSelectPolicy(session, contracts[x])}},
                    FALSE)
    /\ UNCHANGED <<session, impl, documents, contracts, calls>>

\* contractService.getContract(id)
GetContract(k) ==
    /\ lastOp' = IF k \in DOMAIN contracts /\ ContractsSelectPolicy(session, contracts[k])
                 THEN Op("getContract", {contracts[k].user_id}, FALSE)
                 ELSE Op("getContract", {}, TRUE)
    /\ UNCHANGED <<session, impl, documents, contracts, calls>>

\* updates of contractService.updateContract(id, updates: Partial<Contract>);
\* "" stands for a property that is not in updates.
ContractUpdateInputs ==
    {[title |-> "Renamed", user_id |-> ""]} \cup
    {[title |-> "", user_id |-> u] : u \in Users}

ApplyContractUpdate(row, u) ==
    [user_id |-> IF u.user_id = "" THEN row.user_id ELSE u.user_id,
     title |-> IF u.title = "" THEN row.title ELSE u.title,
     content |-> row.content]

\* contractService.updateContract(id, updates).  The UPDATE policy has no
\* WITH CHECK, so its USING expression also checks the new row.
UpdateContract(k, u) ==
    /\ IF k \in DOMAIN contracts
          /\ ContractsUpdatePolicy(session, contracts[k])
          /\ ContractsUpdatePolicy(session, ApplyContractUpdate(contracts[k], u))
       THEN /\ contracts' = [contracts EXCEPT ![k] = ApplyContractUpdate(contracts[k], u)]
            /\ lastOp' = Op("updateContract", {ApplyContractUpdate(contracts[k], u).user_id},
                            FALSE)
       ELSE /\ UNCHANGED contracts
            /\ lastOp' = Op("updateContract", {}, TRUE)
    /\ UNCHANGED <<session, impl, documents, calls>>

\* contractService.deleteContract(id)
DeleteContract(k) ==
    /\ IF k \in DOMAIN contracts /\ ContractsDeletePolicy(session, contracts[k])
       THEN contracts' = [x \in DOMAIN contracts \ {k} |-> contracts[x]]
       ELSE UNCHANGED contracts
    /\ lastOp' = Op("deleteContract", {}, FALSE)
    /\ UNCHANGED <<session, impl, documents, calls>>

-----------------------------------------------------------------------------
\* contractGenerationService: the two provider calls and their join.
\* A branch of gen is one provider call: none, pending (request sent), ok
\* (returned a text) or failed (threw).

NoVersions == [openAI |-> Undefined, gemini |-> Undefined]

IdleGen ==
    [pc |-> "idle", openai |-> "none", gemini |-> "none",
     openaiText |-> Undefined, geminiText |-> Undefined,
     openaiRequests |-> 0, geminiRequests |-> 0, versions |-> NoVersions]

\* Bodies a chat-completion request may come back with: no choices property
\* (an error body), an empty choices array, or one choice with its content.
OpenAIResponses ==
    {[choices |-> "missing", content |-> Undefined],
     [choices |-> "empty", content |-> Undefined],
     [choices |-> "one", content |-> Str("OpenAI draft")]}

\* Variant of OpenAIText without the check of lines 66-68.
OpenAITextUnchecked(resp) == [ok |-> TRUE, text |-> resp.content]

\* if (!openAiData.choices || openAiData.choices.length === 0) throw ...;
\* return openAiData.choices[0].message.content
OpenAIText(resp) ==
    IF resp.choices \in {"missing", "empty"}
    THEN [ok |-> FALSE, text |-> Undefined]
    ELSE [ok |-> TRUE, text |-> resp.content]

\* What generateContent may resolve to: a response with one candidate and its
\* text, or a response without candidates.
GeminiResponses ==
    {[candidates |-> "none", content |-> Undefined],
     [candidates |-> "one", content |-> Str("Gemini draft")]}

\* return response.text(): the service does not look at the candidates; on a
\* response without candidates the accessor of the library either throws or
\* gives the empty string (throws tells which).
GeminiText(resp, throws) ==
    IF resp.candidates = "none"
    THEN IF throws THEN [ok |-> FALSE, text |-> Undefined]
         ELSE [ok |-> TRUE, text |-> Str("")]
    ELSE [ok |-> TRUE, text |-> resp.content]

\* Variant of JoinOutcome that waits for both and is content with one draft.
JoinOutcomeAny(o, g) ==
    IF o = "pending" \/ g = "pending" THEN "running"
    ELSE IF o = "ok" \/ g = "ok" THEN "returned"
    ELSE "threw"

\* await Promise.all([...]): rejected as soon as one of the two is rejected,
\* fulfilled when both are fulfilled.
JoinOutcome(o, g) ==
    IF o = "failed" \/ g = "failed" THEN "threw"
    ELSE IF o = "ok" /\ g = "ok" THEN "returned"
    ELSE "running"

\* The invocation after one of its branches has settled.
Settle(g) ==
    LET out == IF gen.pc = "running" THEN JoinOutcome(g.openai, g.gemini) ELSE gen.pc
    IN [g EXCEPT
          !.pc = out,
          !.versions = IF gen.pc = "running" /\ out = "returned"
                       THEN [openAI |-> g.openaiText, gemini |-> g.geminiText]
                       ELSE gen.versions]

\* generateBothContracts(params): both calls run up to their first await, so
\* both requests are out before either answer is looked at.  A branch left
\* over from an invocation that has failed has no effect any more.
StartedGen ==
    [IdleGen EXCEPT !.pc = "running", !.openai = "pending", !.gemini = "pending",
                    !.openaiRequests = 1, !.geminiRequests = 1]

GenerateBothContracts ==
    /\ gen.pc # "running"
    /\ gen' = StartedGen
    /\ UNCHANGED <<mainVars, ui, creation, form>>

\* generateContractWithOpenAI: the answer of fetch arrives.
OpenAIRespond(resp) ==
    /\ gen.openai = "pending"
    /\ gen' = Settle([gen EXCEPT
                        !.openai = IF OpenAIText(resp).ok THEN "ok" ELSE "failed",
                        !.openaiText = OpenAIText(resp).text])
    /\ UNCHANGED <<mainVars, ui, creation, form>>

\* generateContractWithOpenAI: fetch rejects; catch logs and rethrows.
OpenAIReject ==
    /\ gen.openai = "pending"
    /\ gen' = Settle([gen EXCEPT !.openai = "failed"])
    /\ UNCHANGED <<mainVars, ui, creation, form>>

\* generateContractWithGemini: generateContent resolves.
GeminiRespond(resp, throws) ==
    /\ gen.gemini = "pending"
    /\ gen' = Settle([gen EXCEPT
                        !.gemini = IF GeminiText(resp, throws).ok THEN "ok" ELSE "failed",
                        !.geminiText = GeminiText(resp, throws).text])
    /\ UNCHANGED <<mainVars, ui, creation, form>>

\* generateContractWithGemini: generateContent rejects; catch logs and rethrows.
GeminiReject ==
    /\ gen.gemini = "pending"
    /\ gen' = Settle([gen EXCEPT !.gemini = "failed"])
    /\ UNCHANGED <<mainVars, ui, creation, form>>

-----------------------------------------------------------------------------
\* The contract creation flow: EnhancedContractForm and ContractPreview.
\* writes counts the contract rows written since the form was opened.

FormOpen ==
    [showPreview |-> FALSE, isGenerating |-> FALSE, generated |-> FALSE,
     contractVersions |-> NoVersions, selectedVersion |-> "", writes |-> 0]

FlowContractIds == 1..MaxFlowContracts

PlaceholderContent == "Contract content will be generated here..."

FlowTitle == "NDA between A and B"

\* The argument of createContract in handleSubmit (lines 115-124).
FormContractData == [title |-> FlowTitle, content |-> PlaceholderContent, user_id |-> ""]

\* The argument of saveContract in handleSave (lines 45-54).
SelectedContractData ==
    [title |-> FlowTitle, content |-> ui.contractVersions[ui.selectedVersion].s,
     user_id |-> ""]

\* contractGenerationService.saveContract(contractData)
SaveContract(k, data, ok) ==
    /\ k \notin DOMAIN contracts
    /\ IF session = NoUser \/ ~ok
          \/ ~ContractsInsertPolicy(session, ContractRow(session, data))
       THEN /\ UNCHANGED contracts
            /\ lastOp' = Op("saveContract", {}, TRUE)
       ELSE /\ contracts' = [x \in DOMAIN contracts \cup {k} |->
                                IF x = k THEN ContractRow(session, data) ELSE contracts[x]]
            /\ lastOp' = Op("saveContract", {session}, FALSE)
    /\ UNCHANGED <<session, impl, documents, calls>>

\* EnhancedContractForm.handleSubmit on the last field: createContract, then
\* the preview opens; a failure shows a toast and leaves the form as it is.
HandleSubmit(k, ok) ==
    /\ ~ui.showPreview
    /\ CreateContract(k, FormContractData, ok)
    /\ ui' = IF lastOp'.failed THEN ui
             ELSE [FormOpen EXCEPT !.showPreview = TRUE, !.writes = ui.writes + 1]
    /\ UNCHANGED <<gen, creation, form>>

\* ContractPreview.generateContracts up to its await.
GenerateContracts ==
    /\ ui.showPreview
    /\ ~ui.generated
    /\ ~ui.isGenerating
    /\ gen.pc # "running"
    /\ gen' = StartedGen
    /\ ui' = [ui EXCEPT !.isGenerating = TRUE]
    /\ UNCHANGED <<mainVars, creation, form>>

\* ContractPreview.generateContracts after its await: setContractVersions on
\* success, a toast on failure, setIsGenerating(false) in both cases.
GenerateContractsDone ==
    /\ ui.isGenerating
    /\ gen.pc \in {"returned", "threw"}
    /\ ui' = [ui EXCEPT
                !.isGenerating = FALSE,
                !.generated = (gen.pc = "returned"),
                !.contractVersions = IF gen.pc = "returned" THEN gen.versions ELSE @]
    /\ UNCHANGED <<mainVars, gen, creation, form>>

\* onClick={() => setSelectedVersion(v)}
SelectVersion(v) ==
    /\ ui.showPreview
    /\ ui.generated
    /\ ui.selectedVersion # v
    /\ ui' = [ui EXCEPT !.selectedVersion = v]
    /\ UNCHANGED <<mainVars, gen, creation, form>>

\* Variant of handleSave without  if (!selectedVersion || !contractVersions)
\* return  and with the button always enabled: with no selection it saves the
\* first draft held.
HandleSaveUnselected(k, ok) ==
    /\ ui.showPreview
    /\ SaveContract(k, [title |-> FlowTitle,
                        content |-> IF ui.selectedVersion # ""
                                    THEN ui.contractVersions[ui.selectedVersion].s
                                    ELSE ui.contractVersions.openAI.s,
                        user_id |-> ""], ok)
    /\ ui' = IF lastOp'.failed THEN ui ELSE FormOpen
    /\ UNCHANGED <<gen, creation, form>>

\* ContractPreview.handleSave: saveContract with the selected draft, then
\* onSaved navigates away from the form.
HandleSave(k, ok) ==
    /\ ui.showPreview
    /\ ui.generated
    /\ ui.selectedVersion # ""
    /\ SaveContract(k, SelectedContractData, ok)
    /\ ui' = IF lastOp'.failed THEN ui ELSE FormOpen
    /\ UNCHANGED <<gen, creation, form>>

\* onClose: the preview is unmounted and its state is gone; the form stays
\* on its last field.
ClosePreview ==
    /\ ui.showPreview
    /\ ui' = [FormOpen EXCEPT !.writes = ui.writes]
    /\ UNCHANGED <<mainVars, gen, creation, form>>

-----------------------------------------------------------------------------
\* Document creation: documentService.createDocument(title, content) and
\* DocumentAnalysis.onSubmit.  creation is the creation in progress: who runs
\* it, the document and the analyzeDocument call it started, and what its
\* caller has got: "pending", "returned" or "threw".

NoCreation == [kind |-> "", doc |-> 0, call |-> 0, outcome |-> ""]

\* Value of a column the inserted object has no property for: the column's
\* default.  For user_id that is NULL or auth.uid(), by the table definition.
UserIdDefaults == {"null", "auth.uid()"}

UserIdDefault(dflt) == IF dflt = "auth.uid()" THEN session ELSE "null"

\* The row of insert([{ title, content, status: 'analyzing' }]).
BackgroundRow(title, content, dflt) ==
    [user_id |-> UserIdDefault(dflt), title |-> Str(title), content |-> content,
     status |-> Str("analyzing"), risk_level |-> Null, risk_score |-> Null,
     findings |-> FindingsOther(Null), recommendations |-> Null, error |-> Null]

\* documentService.createDocument(title, content), lines 174-188: insert,
\* start analyzeDocument without awaiting it, return the record.
CreateDocumentBackground(d, c, title, content, dflt, ok) ==
    /\ d \notin DOMAIN documents
    /\ CanStart(c)
    /\ creation.outcome # "pending"
    /\ IF ok /\ DocumentsInsertPolicy(session, BackgroundRow(title, content, dflt))
       THEN /\ documents' = [x \in DOMAIN documents \cup {d} |->
                                IF x = d THEN BackgroundRow(title, content, dflt)
                                ELSE documents[x]]
            /\ calls' = [calls EXCEPT ![c] =
                            [IdleCall EXCEPT !.pc = "marking", !.doc = d]]
            /\ creation' = [kind |-> "createDocument", doc |-> d, call |-> c,
                            outcome |-> "returned"]
       ELSE /\ UNCHANGED <<documents, calls>>
            /\ creation' = [kind |-> "createDocument", doc |-> d, call |-> 0,
                            outcome |-> "threw"]
    /\ UNCHANGED <<session, impl, contracts, lastOp, gen, ui, form>>

\* DocumentAnalysis.onSubmit up to  await analyzeDocument(documentData.id, content).
OnSubmit(d, c, title, content, ok) ==
    /\ creation.outcome # "pending"
    /\ SubmitDocument(d, c, title, content, ok)
    /\ creation' = IF d \in DOMAIN documents'
                   THEN [kind |-> "onSubmit", doc |-> d, call |-> c, outcome |-> "pending"]
                   ELSE [kind |-> "onSubmit", doc |-> d, call |-> 0, outcome |-> "threw"]
    /\ UNCHANGED <<gen, ui, form>>

\* DocumentAnalysis.onSubmit after the await: navigate and the success toast,
\* or the catch block with the 'Analysis failed' toast.
OnSubmitDone ==
    /\ creation.kind = "onSubmit"
    /\ creation.outcome = "pending"
    /\ calls[creation.call].pc = "done"
    /\ creation' = [creation EXCEPT !.outcome = calls[creation.call].result]
    /\ UNCHANGED <<mainVars, gen, ui, form>>

-----------------------------------------------------------------------------
\* The specifications.

EmptyTable == [x \in {} |-> 0]

NoOp == [op |-> "", user |-> NoUser, owners |-> {}, failed |-> FALSE]

MainIdle ==
    /\ session = NoUser
    /\ impl = "gemini"
    /\ documents = EmptyTable
    /\ contracts = EmptyTable
    /\ calls = [c \in CallIds |-> IdleCall]
    /\ lastOp = NoOp

ExtractIdle ==
    /\ ptext = <<>>
    /\ pstage = "off"
    /\ pmatch = [found |-> FALSE, m |-> <<>>]
    /\ pobj = JsonParse(<<>>)

NormIdle ==
    /\ nin = NoAnalysis
    /\ nstage = "off"
    /\ nout = [ok |-> FALSE, inner |-> "", analysis |-> NoAnalysis]

\* EnhancedContractForm on its last field, intensity.  intensity is
\* formData.intensity, inflight counts the createContract calls that have not
\* settled, passed lists the intensity of each contract passed to
\* createContract, toast is the last message shown.
FormIdle ==
    [intensity |-> Undefined, isGenerating |-> FALSE, showPreview |-> FALSE,
     inflight |-> 0, passed |-> <<>>, toast |-> ""]

\* max={100} of the input
IntensityMax == 100

\* What the user types in the number input.
IntensityInputs == {0, 1, 50, 100, 150}

\* Number(value) of a string of digits
JsNumber(str) == CHOOSE n \in 0..(2 * IntensityMax) : NumToString(n) = str

\* value={currentValue as string || ""} of the input, and the button's
\* String(formData[...] || "")
Displayed(v) == IF Truthy(v) THEN JsString(v) ELSE ""

\* intensity: String(newFormData.intensity || 50)
IntensityArg(v) == JsString(IF Truthy(v) THEN v ELSE Num(50))

\* onChange of the input on the intensity field (lines 192-202)
TypeIntensity(n) ==
    /\ form.intensity # Num(n)
    /\ form' = IF JsNumber(NumToString(n)) >= 0 /\ JsNumber(NumToString(n)) <= IntensityMax
               THEN [form EXCEPT !.intensity = Num(JsNumber(NumToString(n)))]
               ELSE form
    /\ UNCHANGED <<mainVars, gen, ui, creation>>

\* handleSubmit(value) on the last field up to its await (lines 77-115).  The
\* button is disabled while isGenerating and passes
\* String(formData.intensity || ""); the Enter key passes the value of the
\* input, which is never disabled.
SubmitLast(via) ==
    /\ via = "button" => ~form.isGenerating
    /\ Len(form.passed) < MaxSubmits
    /\ form' = IF Displayed(form.intensity) = ""
               THEN [form EXCEPT !.toast = "Please enter a value"]
               ELSE [form EXCEPT
                       !.intensity = Num(JsNumber(Displayed(form.intensity))),
                       !.isGenerating = TRUE,
                       !.inflight = @ + 1,
                       !.passed = Append(@, IntensityArg(Num(JsNumber(Displayed(form.intensity))))),
                       !.toast = ""]
    /\ UNCHANGED <<mainVars, gen, ui, creation>>

\* handleSubmit after its await (lines 126-148): the preview opens on success,
\* a toast on failure, setIsGenerating(false) in both cases.
SettleCreate(k, ok) ==
    /\ form.inflight > 0
    /\ CreateContract(k, FormContractData, ok)
    /\ form' = [form EXCEPT
                  !.inflight = @ - 1,
                  !.isGenerating = FALSE,
                  !.showPreview = @ \/ ~lastOp'.failed,
                  !.toast = IF lastOp'.failed THEN "Failed to create contract"
                            ELSE "Contract created successfully"]
    /\ UNCHANGED <<gen, ui, creation>>

FlowIdle ==
    /\ gen = IdleGen
    /\ ui = FormOpen
    /\ creation = NoCreation
    /\ form = FormIdle

\* The document lifecycle: a signed-in user creates documents and runs
\* analyses and retries on them.
Init ==
    /\ session = "u1"
    /\ impl \in Variants
    /\ documents = EmptyTable
    /\ contracts = EmptyTable
    /\ calls = [c \in CallIds |-> IdleCall]
    /\ lastOp = NoOp
    /\ ExtractIdle
    /\ NormIdle
    /\ FlowIdle

\* Analyses are run on the documents of AnalysedDocs; the other documents are
\* there to be left alone.
AnalysedDocs == {1}

Next ==
    /\ UNCHANGED <<extractVars, normVars, flowVars>>
    /\ \/ \E d \in AnalysedDocs, c \in CallIds, t \in DocTitles, b \in DocBodies,
             ok \in BOOLEAN :
              SubmitDocument(d, c, t, b, ok)
       \/ \E d \in DocIds, data \in DocumentDataInputs : CreateDocument(d, data, TRUE)
       \/ \E c \in CallIds, d \in AnalysedDocs : AnalyzeStart(c, d)
       \/ \E c \in CallIds, d \in DocIds, ok \in BOOLEAN : RetryAnalysis(c, d, ok)
       \/ \E c \in CallIds, ok \in BOOLEAN : WriteAnalyzing(c, ok)
       \/ \E c \in CallIds, t \in ModelTexts : ProviderRespond(c, t)
       \/ \E c \in CallIds : ProviderFail(c)
       \/ \E c \in CallIds, throws \in BOOLEAN : ProviderEmpty(c, throws)
       \/ \E c \in CallIds, ok \in BOOLEAN : WriteCompleted(c, ok)
       \/ \E c \in CallIds, ok \in BOOLEAN : WriteError(c, ok)

Spec == Init /\ [][Next]_vars

\* The persistence adapter under row-level security: users sign in and out
\* and issue create, getAll, getById, update and delete on both tables.
InitCrud ==
    /\ MainIdle
    /\ ExtractIdle
    /\ NormIdle
    /\ FlowIdle

NextCrud ==
    /\ UNCHANGED <<extractVars, normVars, flowVars>>
    /\ \/ \E u \in Users : SignIn(u)
       \/ SignOut
       \/ \E d \in CrudDocIds, data \in DocumentDataInputs, ok \in BOOLEAN :
              CreateDocument(d, data, ok)
       \/ GetDocuments
       \/ \E d \in CrudDocIds : GetDocument(d)
       \/ \E d \in CrudDocIds, p \in DocUpdateInputs : UpdateDocument(d, p)
       \/ \E d \in CrudDocIds : DeleteDocument(d)
       \/ \E k \in ContractIds, data \in ContractDataInputs, ok \in BOOLEAN :
              CreateContract(k, data, ok)
       \/ GetContracts
       \/ \E k \in ContractIds : GetContract(k)
       \/ \E k \in ContractIds, u \in ContractUpdateInputs : UpdateContract(k, u)
       \/ \E k \in ContractIds : DeleteContract(k)

SpecCrud == InitCrud /\ [][NextCrud]_vars

-----------------------------------------------------------------------------
\* Extraction on its own: lines 61-68 applied to every text of up to
\* MaxTextLen tokens.

TextAlphabet == {"{", "}", "p", "L_low"}

Texts == UNION {[1..k -> TextAlphabet] : k \in 0..MaxTextLen}

InitExtract ==
    /\ MainIdle
    /\ NormIdle
    /\ FlowIdle
    /\ ptext \in Texts
    /\ pstage = "raw"
    /\ pmatch = [found |-> FALSE, m |-> <<>>]
    /\ pobj = JsonParse(<<>>)

\* const jsonMatch = text.match(/\{[\s\S]*\}/); if (jsonMatch) ... else throw
ExtractMatch ==
    /\ pstage = "raw"
    /\ pmatch' = JsonMatch(ptext)
    /\ pstage' = IF JsonMatch(ptext).found THEN "matched" ELSE "nomatch"
    /\ UNCHANGED <<ptext, pobj>>

\* analysis = JSON.parse(jsonMatch[0])
ExtractDecode ==
    /\ pstage = "matched"
    /\ pobj' = JsonParse(pmatch.m)
    /\ pstage' = IF JsonParse(pmatch.m).ok THEN "decoded" ELSE "undecodable"
    /\ UNCHANGED <<ptext, pmatch>>

NextExtract ==
    /\ UNCHANGED <<mainVars, normVars, flowVars>>
    /\ \/ ExtractMatch
       \/ ExtractDecode

SpecExtract == InitExtract /\ [][NextExtract]_vars

-----------------------------------------------------------------------------
\* Normalization on its own: lines 70-95 of documentAnalysis.ts and the
\* findings formatting of documentService, applied to every decoded object
\* built from the values below.

TextInputs == {Undefined, Str(""), Str("Clause 4 is vague"), Num(7)}
LevelInputs == {Undefined, Str("high"), Str("critical")}
SuggestionInputs == {Undefined, Arr(<<"Define the term">>), Str("none")}

ElemInputs ==
    {ElemPrim(v) : v \in {Str("Missing termination clause"), Str(""), Num(5), Null}}
    \cup {ElemObj(tx, rl, sg) : tx \in TextInputs, rl \in LevelInputs, sg \in SuggestionInputs}

FindingsInputs ==
    {FindingsOther(Undefined), FindingsOther(Str("none"))}
    \cup {FindingsArr(q) : q \in UNION {[1..k -> ElemInputs] : k \in 0..MaxFindings}}

TopLevelInputs == {Undefined, Str("low"), Str("critical"), Num(1)}
ScoreInputs == {Undefined, Null, Str("high"), Num(0 - 5), Num(0), Num(100), Num(150)}
RecommendationInputs == {Str("Review clause 4"), Null}

AnalysisInputs ==
    [findings : FindingsInputs, riskLevel : TopLevelInputs,
     riskScore : ScoreInputs, recommendations : RecommendationInputs]

InitNorm ==
    /\ MainIdle
    /\ ExtractIdle
    /\ FlowIdle
    /\ nin \in AnalysisInputs
    /\ nstage = "input"
    /\ nout = [ok |-> FALSE, inner |-> "", analysis |-> NoAnalysis]

\* documentAnalysis.ts, lines 70-95
NormalizeStep ==
    /\ nstage = "input"
    /\ nout' = NormalizeAnalysis(nin)
    /\ nstage' = IF NormalizeAnalysis(nin).ok THEN "normalized" ELSE "threw"
    /\ UNCHANGED nin

FormatStep ==
    /\ nstage = "input"
    /\ nout' = [ok |-> FormatFindings(nin.findings).ok, inner |-> "",
                analysis |-> [nin EXCEPT !.findings = FormatFindings(nin.findings).findings]]
    /\ nstage' = IF FormatFindings(nin.findings).ok THEN "formatted" ELSE "threw"
    /\ UNCHANGED nin

NextNorm ==
    /\ UNCHANGED <<mainVars, extractVars, flowVars>>
    /\ \/ NormalizeStep
       \/ FormatStep

SpecNorm == InitNorm /\ [][NextNorm]_vars

-----------------------------------------------------------------------------
\* The contract creation flow of a signed-in user.

InitFlow ==
    /\ session = "u1"
    /\ impl = "gemini"
    /\ documents = EmptyTable
    /\ contracts = EmptyTable
    /\ calls = [c \in CallIds |-> IdleCall]
    /\ lastOp = NoOp
    /\ ExtractIdle
    /\ NormIdle
    /\ FlowIdle

NextFlow ==
    /\ UNCHANGED <<extractVars, normVars>>
    /\ \/ \E k \in FlowContractIds, ok \in BOOLEAN : HandleSubmit(k, ok)
       \/ GenerateContracts
       \/ \E resp \in OpenAIResponses : OpenAIRespond(resp)
       \/ OpenAIReject
       \/ \E resp \in GeminiResponses, throws \in BOOLEAN : GeminiRespond(resp, throws)
       \/ GeminiReject
       \/ GenerateContractsDone
       \/ \E v \in {"openAI", "gemini"} : SelectVersion(v)
       \/ \E k \in FlowContractIds, ok \in BOOLEAN : HandleSave(k, ok)
       \/ ClosePreview

SpecFlow == InitFlow /\ [][NextFlow]_vars

-----------------------------------------------------------------------------
\* Creation of documents: users sign in and out and create documents in each
\* of the three ways, and the analyses the creations start run.

MaxCreateCalls == 1

CreateCallIds == 1..MaxCreateCalls

InitCreate ==
    /\ MainIdle
    /\ ExtractIdle
    /\ NormIdle
    /\ FlowIdle

NextCreate ==
    /\ UNCHANGED <<extractVars, normVars>>
    /\ \/ /\ UNCHANGED flowVars
          /\ \/ \E u \in Users : SignIn(u)
             \/ SignOut
             \/ \E d \in DocIds, data \in DocumentDataInputs \cup AnalysedDataInputs,
                   ok \in BOOLEAN : CreateDocument(d, data, ok)
             \/ \E d \in DocIds : DeleteDocument(d)
             \/ \E c \in CreateCallIds, ok \in BOOLEAN : WriteAnalyzing(c, ok)
             \/ \E c \in CreateCallIds, t \in ModelTexts : ProviderRespond(c, t)
             \/ \E c \in CreateCallIds : ProviderFail(c)
             \/ \E c \in CreateCallIds, throws \in BOOLEAN : ProviderEmpty(c, throws)
             \/ \E c \in CreateCallIds, ok \in BOOLEAN : WriteCompleted(c, ok)
             \/ \E c \in CreateCallIds, ok \in BOOLEAN : WriteError(c, ok)
       \/ \E d \in DocIds, c \in CreateCallIds, t \in DocTitles, b \in DocBodies,
             dflt \in UserIdDefaults, ok \in BOOLEAN :
              CreateDocumentBackground(d, c, t, b, dflt, ok)
       \/ \E d \in DocIds, c \in CreateCallIds, t \in DocTitles, b \in DocBodies,
             ok \in BOOLEAN :
              OnSubmit(d, c, t, b, ok)
       \/ OnSubmitDone

SpecCreate == InitCreate /\ [][NextCreate]_vars

-----------------------------------------------------------------------------
\* Inserts: users sign in and out and insert rows through createContract,
\* saveContract and both createDocument; the analysis a creation starts runs.

InitInsert ==
    /\ MainIdle
    /\ ExtractIdle
    /\ NormIdle
    /\ FlowIdle

NextInsert ==
    /\ UNCHANGED <<extractVars, normVars>>
    /\ \/ /\ UNCHANGED flowVars
          /\ \/ \E u \in Users : SignIn(u)
             \/ SignOut
             \/ \E d \in DocIds, data \in DocumentDataInputs \cup AnalysedDataInputs,
                   ok \in BOOLEAN : CreateDocument(d, data, ok)
             \/ \E k \in ContractIds, data \in ContractDataInputs, ok \in BOOLEAN :
                    CreateContract(k, data, ok)
             \/ \E k \in ContractIds, data \in ContractDataInputs, ok \in BOOLEAN :
                    SaveContract(k, data, ok)
             \/ \E c \in CreateCallIds, ok \in BOOLEAN : WriteAnalyzing(c, ok)
             \/ \E c \in CreateCallIds, t \in ModelTexts : ProviderRespond(c, t)
             \/ \E c \in CreateCallIds : ProviderFail(c)
             \/ \E c \in CreateCallIds, throws \in BOOLEAN : ProviderEmpty(c, throws)
             \/ \E c \in CreateCallIds, ok \in BOOLEAN : WriteCompleted(c, ok)
             \/ \E c \in CreateCallIds, ok \in BOOLEAN : WriteError(c, ok)
       \/ \E d \in AnalysedDocs, c \in CreateCallIds, t \in DocTitles, b \in DocBodies,
             dflt \in UserIdDefaults, ok \in BOOLEAN :
              CreateDocumentBackground(d, c, t, b, dflt, ok)

SpecInsert == InitInsert /\ [][NextInsert]_vars

-----------------------------------------------------------------------------
\* The provider calls: analyses of a document and generateBothContracts.

MaxProviderCalls == 1

ProviderCallIds == 1..MaxProviderCalls

InitProvider ==
    /\ session = "u1"
    /\ impl \in Variants
    /\ documents = EmptyTable
    /\ contracts = EmptyTable
    /\ calls = [c \in CallIds |-> IdleCall]
    /\ lastOp = NoOp
    /\ ExtractIdle
    /\ NormIdle
    /\ FlowIdle

NextProvider ==
    /\ UNCHANGED <<extractVars, normVars>>
    /\ \/ /\ UNCHANGED flowVars
          /\ \/ \E d \in AnalysedDocs, c \in ProviderCallIds, t \in DocTitles,
                   b \in DocBodies, ok \in BOOLEAN :
                    SubmitDocument(d, c, t, b, ok)
             \/ \E c \in ProviderCallIds, d \in AnalysedDocs : AnalyzeStart(c, d)
             \/ \E c \in ProviderCallIds, d \in AnalysedDocs, ok \in BOOLEAN :
                    RetryAnalysis(c, d, ok)
             \/ \E c \in ProviderCallIds, ok \in BOOLEAN : WriteAnalyzing(c, ok)
             \/ \E c \in ProviderCallIds, t \in ModelTexts : ProviderRespond(c, t)
             \/ \E c \in ProviderCallIds : ProviderFail(c)
             \/ \E c \in ProviderCallIds, throws \in BOOLEAN : ProviderEmpty(c, throws)
             \/ \E c \in ProviderCallIds, ok \in BOOLEAN : WriteCompleted(c, ok)
             \/ \E c \in ProviderCallIds, ok \in BOOLEAN : WriteError(c, ok)
       \/ GenerateBothContracts
       \/ \E resp \in OpenAIResponses : OpenAIRespond(resp)
       \/ OpenAIReject
       \/ \E resp \in GeminiResponses, throws \in BOOLEAN : GeminiRespond(resp, throws)
       \/ GeminiReject

SpecProvider == InitProvider /\ [][NextProvider]_vars

-----------------------------------------------------------------------------
\* An interrupted analysis.  Once a call has stopped no analysis is started:
\* the behaviours are those in which no retry follows the stop.

Stopped(d) == \E c \in CallIds : calls[c].pc = "stopped" /\ calls[c].doc = d

NoneStopped == \A c \in CallIds : calls[c].pc # "stopped"

\* updateDocument(id, {status}): dbUpdates with the status alone.
StatusUpdateInputs == {StatusPayload(st) : st \in {"completed", "error"}}

MaxStopCalls == 2

StopCallIds == 1..MaxStopCalls

\* Two answers of the provider: one that parses and one that does not.
AnswerTexts == {<<"{", "F_none", "L_low", "S_10", "R_txt", "}">>, <<"p", "p">>}

NextStop ==
    /\ UNCHANGED <<extractVars, normVars, flowVars>>
    /\ \/ /\ NoneStopped
          /\ \/ \E d \in AnalysedDocs, c \in StopCallIds, t \in DocTitles,
                   b \in DocBodies, ok \in BOOLEAN :
                    SubmitDocument(d, c, t, b, ok)
             \/ \E c \in StopCallIds, d \in AnalysedDocs : AnalyzeStart(c, d)
             \/ \E c \in StopCallIds, d \in AnalysedDocs, ok \in BOOLEAN :
                    RetryAnalysis(c, d, ok)
       \/ \E c \in StopCallIds, ok \in BOOLEAN : WriteAnalyzing(c, ok)
       \/ \E c \in StopCallIds, t \in AnswerTexts : ProviderRespond(c, t)
       \/ \E c \in StopCallIds : ProviderFail(c)
       \/ \E c \in StopCallIds, throws \in BOOLEAN : ProviderEmpty(c, throws)
       \/ \E c \in StopCallIds, ok \in BOOLEAN : WriteCompleted(c, ok)
       \/ \E c \in StopCallIds, ok \in BOOLEAN : WriteError(c, ok)
       \/ \E c \in StopCallIds : Stop(c)
       \/ \E d \in AnalysedDocs, p \in StatusUpdateInputs : UpdateDocument(d, p)

SpecStop == Init /\ [][NextStop]_vars

-----------------------------------------------------------------------------
\* Analyses among several documents: a signed-in user creates documents and
\* runs analyzeDocument on any of them.

NextFrame ==
    /\ UNCHANGED <<extractVars, normVars, flowVars>>
    /\ \/ \E d \in CrudDocIds, data \in DocumentDataInputs : CreateDocument(d, data, TRUE)
       \/ \E c \in CreateCallIds, d \in CrudDocIds : AnalyzeStart(c, d)
       \/ \E c \in CreateCallIds, ok \in BOOLEAN : WriteAnalyzing(c, ok)
       \/ \E c \in CreateCallIds, t \in AnswerTexts : ProviderRespond(c, t)
       \/ \E c \in CreateCallIds : ProviderFail(c)
       \/ \E c \in CreateCallIds, ok \in BOOLEAN : WriteCompleted(c, ok)
       \/ \E c \in CreateCallIds, ok \in BOOLEAN : WriteError(c, ok)

SpecFrame == Init /\ [][NextFrame]_vars

-----------------------------------------------------------------------------
\* The last field of the contract form: the user types an intensity and
\* submits it by the button or by the Enter key.

NextForm ==
    /\ UNCHANGED <<extractVars, normVars>>
    /\ \/ \E n \in IntensityInputs : TypeIntensity(n)
       \/ \E via \in {"button", "enter"} : SubmitLast(via)
       \/ \E k \in FlowContractIds, ok \in BOOLEAN : SettleCreate(k, ok)

SpecForm == InitFlow /\ [][NextForm]_vars


TerminalStatuses == {Str("completed"), Str("error")}

\* The step in which call c finishes: its last status write comes back.
Finishes(c) == calls[c].pc \in {"completing", "failing"} /\ calls'[c].pc = "done"

DocOf(c) == calls'[c].doc

\* C1: when a call of analyzeDocument finishes, by returning or by throwing,
\* and the backend applied its final status write, the status of the
\* document is completed or error, not analyzing.
C1_TerminalStatusAfterAnalyze ==
    [][\A c \in CallIds :
          (Finishes(c) /\ calls'[c].lastApplied)
              => documents'[DocOf(c)].status \in TerminalStatuses]_vars

C1_Witness ==
    \E c \in CallIds :
        /\ calls[c].pc = "done"
        /\ calls[c].result = "threw"
        /\ calls[c].lastApplied
        /\ calls[c].doc \in DOMAIN documents
        /\ documents[calls[c].doc].status = Str("error")

\* A finding with a string text, a riskLevel among low, medium, high and a
\* sequence of suggestions.
WellTypedFinding(e) ==
    /\ e.t = "object"
    /\ e.text.t = "string"
    /\ e.riskLevel.t = "string"
    /\ e.riskLevel.s \in RiskLevels
    /\ e.suggestions.t = "array"

\* C2: every finding in the documents table has a string text, a riskLevel
\* that is one of low, medium, high, and a suggestions field that is a
\* sequence.
C2_PersistedFindingsWellTyped ==
    \A d \in DOMAIN documents :
        \A i \in 1..Len(documents[d].findings.elems) :
            WellTypedFinding(documents[d].findings.elems[i])

NoBracePair(text) ==
    ~\E i, j \in 1..Len(text) : i < j /\ text[i] = "{" /\ text[j] = "}"

\* The step in which call c, whose model output has no "{" ... "}" pair,
\* gets the answer to its error write.
NoJsonErrorWrite(c) ==
    /\ calls[c].pc = "failing"
    /\ calls[c].text # <<>>
    /\ NoBracePair(calls[c].text)
    /\ calls'[c].pc = "done"
    /\ DocOf(c) \in DOMAIN documents

ErrorRecorded(row) ==
    /\ row.status = Str("error")
    /\ row.error.t = "string"
    /\ row.error.s # ""

\* C3 as claimed: when the model output has no "{" ... "}" pair, the document
\* ends with status error and a non-empty error message, and is not left in
\* analyzing.
C3_Original_NoJsonEndsInError ==
    [][\A c \in CallIds :
          NoJsonErrorWrite(c) => ErrorRecorded(documents'[DocOf(c)])]_vars

\* C3 amended: when the model output has no "{" ... "}" pair, analyzeDocument
\* issues the write of status error with a non-empty message, and the
\* document holds that status and message, and is not in analyzing, once the
\* backend has applied the write.
C3_NoJsonWritesError ==
    [][\A c \in CallIds :
          NoJsonErrorWrite(c)
              => /\ ErrorPayload(calls[c].err).status = Str("error")
                 /\ calls[c].err # ""
                 /\ calls'[c].lastApplied
                        => /\ ErrorRecorded(documents'[DocOf(c)])
                           /\ documents'[DocOf(c)].error = Str(calls[c].err)]_vars

C3_Witness ==
    \E c \in CallIds :
        /\ calls[c].pc = "done"
        /\ calls[c].text # <<>>
        /\ NoBracePair(calls[c].text)
        /\ calls[c].lastApplied
        /\ calls[c].doc \in DOMAIN documents
        /\ ErrorRecorded(documents[calls[c].doc])

\* The object decoded from a model output.
Decoded(text) == JsonParse(JsonMatch(text).m).obj

\* The step in which the completed write of call c is applied.
CompletedWriteApplied(c) ==
    /\ calls[c].pc = "completing"
    /\ calls'[c].pc = "done"
    /\ calls'[c].lastApplied

\* C4: the persisted risk_level is the output's riskLevel when that is low,
\* medium or high, and medium for every other value, a missing one included.
C4_PersistedRiskLevel ==
    [][\A c \in CallIds :
          CompletedWriteApplied(c)
              => documents'[DocOf(c)].risk_level =
                     IF /\ Decoded(calls[c].text).riskLevel.t = "string"
                        /\ Decoded(calls[c].text).riskLevel.s \in RiskLevels
                     THEN Decoded(calls[c].text).riskLevel
                     ELSE Str("medium")]_vars

\* C5: a finding object keeps riskLevel only if it is low, medium or high and
\* otherwise gets medium; keeps text only if it is a non-empty string and
\* otherwise gets the element's string form; keeps suggestions only if it is
\* a sequence and otherwise gets the empty sequence.
C5_FindingNormalized ==
    nstage = "normalized" =>
        \A i \in 1..Len(nin.findings.elems) :
            LET e == nin.findings.elems[i]
                r == nout.analysis.findings.elems[i]
            IN e.t = "object" =>
                /\ r.riskLevel = IF e.riskLevel.t = "string" /\ e.riskLevel.s \in RiskLevels
                                 THEN e.riskLevel ELSE Str("medium")
                /\ r.text = IF e.text.t = "string" /\ e.text.s # ""
                            THEN e.text ELSE Str(ElemToString(e))
                /\ r.suggestions = IF e.suggestions.t = "array"
                                   THEN e.suggestions ELSE Arr(<<>>)

\* C6: the persisted risk_score is the output's riskScore when that is a
\* number in 0..100 and 50 otherwise, so it is always within 0..100.
C6_PersistedRiskScore ==
    [][\A c \in CallIds :
          CompletedWriteApplied(c)
              => /\ documents'[DocOf(c)].risk_score =
                        IF /\ Decoded(calls[c].text).riskScore.t = "number"
                           /\ Decoded(calls[c].text).riskScore.n \in 0..100
                        THEN Decoded(calls[c].text).riskScore
                        ELSE Num(50)
                 /\ documents'[DocOf(c)].risk_score.n \in 0..100]_vars

\* C7: every element of the findings array that is a bare string s becomes
\* the finding {text: s, riskLevel: medium, suggestions: []}, in
\* analyzeDocument and in the formatting of documentService.
C7_BareStringFinding ==
    nstage \in {"normalized", "formatted"} =>
        \A i \in 1..Len(nin.findings.elems) :
            nin.findings.elems[i].t = "string" =>
                nout.analysis.findings.elems[i] =
                    ElemObj(Str(nin.findings.elems[i].s), Str("medium"), Arr(<<>>))

C7_Witness ==
    /\ nstage = "normalized"
    /\ Len(nin.findings.elems) >= 1
    /\ nin.findings.elems[1] = ElemPrim(Str("Missing termination clause"))
    /\ nout.analysis.findings.elems[1].text = Str("Missing termination clause")

Opens(text) == {i \in 1..Len(text) : text[i] = "{"}
Closes(text) == {j \in 1..Len(text) : text[j] = "}"}
FirstOpen(text) == CHOOSE i \in Opens(text) : \A k \in Opens(text) : i <= k
LastClose(text) == CHOOSE j \in Closes(text) : \A k \in Closes(text) : k <= j
HasBracePair(text) ==
    Opens(text) # {} /\ Closes(text) # {} /\ FirstOpen(text) < LastClose(text)

\* C8: extraction takes the substring from the first "{" to the last "}" and
\* decodes that substring, whatever precedes and follows it; when the text
\* has no such substring, extraction fails.
C8_ExtractFirstToLast ==
    /\ pstage \in {"matched", "decoded", "undecodable"}
           => /\ HasBracePair(ptext)
              /\ pmatch.found
              /\ pmatch.m = SubSeq(ptext, FirstOpen(ptext), LastClose(ptext))
    /\ pstage \in {"decoded", "undecodable"}
           => pobj = JsonParse(SubSeq(ptext, FirstOpen(ptext), LastClose(ptext)))
    /\ pstage = "nomatch" => ~HasBracePair(ptext)

C8_Witness ==
    /\ pstage = "decoded"
    /\ Len(ptext) = 5
    /\ ptext[1] = "p"
    /\ ptext[5] = "p"
    /\ pmatch.m = <<"{", "L_low", "}">>
    /\ pobj.obj.riskLevel = Str("low")

\* Content that is null or the empty string.
NullOrEmpty(v) == v.t = "null" \/ (v.t = "string" /\ v.s = "")

\* C9: retryAnalysis on a document whose stored content is null or empty
\* fails, with the no-content error once the record is loaded, and leaves the
\* documents table as it is.
C9_RetryWithoutContent ==
    [][\A c \in CallIds, d \in DocIds, ok \in BOOLEAN :
          (/\ RetryAnalysis(c, d, ok)
           /\ d \in DOMAIN documents
           /\ NullOrEmpty(documents[d].content))
              => /\ calls'[c].pc = "done"
                 /\ calls'[c].result = "threw"
                 /\ (ok /\ DocumentsSelectPolicy(session, documents[d]))
                        => calls'[c].err = NoContentMessage
                 /\ documents' = documents]_vars

C9_Witness ==
    \E c \in CallIds :
        /\ calls[c].pc = "done"
        /\ calls[c].err = NoContentMessage
        /\ calls[c].doc \in DOMAIN documents
        /\ NullOrEmpty(documents[calls[c].doc].content)
        /\ documents[calls[c].doc].status = Str("analyzing")

\* Rows of table that user uid does not own are in table2 as they are.
OthersRowsKept(uid, table, table2) ==
    \A x \in DOMAIN table :
        table[x].user_id # uid => (x \in DOMAIN table2 /\ table2[x] = table[x])

\* C10: an operation issued by a user returns no row of another user, and
\* changes or removes no row of another user, on documents and on contracts.
C10_OwnershipFiltering ==
    [][/\ lastOp'.owners \subseteq {lastOp'.user}
       /\ OthersRowsKept(session, documents, documents')
       /\ OthersRowsKept(session, contracts, contracts')]_vars

C10_Witness ==
    /\ session = "u1"
    /\ lastOp.op = "getDocuments"
    /\ lastOp.user = "u1"
    /\ lastOp.owners = {"u1"}
    /\ \E d \in DOMAIN documents : documents[d].user_id = "u2"
    /\ \E k \in DOMAIN contracts : contracts[k].user_id = "u2"

\* C11 as claimed: analyzeDocument raises only when a persistence write
\* failed; after a provider failure or a parse failure it records status
\* error and does not raise.
C11_Original_RaisesOnlyOnWriteFailure ==
    [][\A c \in CallIds :
          (Finishes(c) /\ calls'[c].result = "threw")
              => (calls[c].cause = "write" \/ ~calls'[c].lastApplied)]_vars

\* C11 amended: analyzeDocument raises to its caller exactly when the provider
\* call failed, the model output could not be parsed or the completed write
\* returned an error, in each case after issuing the write of status error
\* with the message, which the document holds once the backend applied it;
\* it returns normally exactly when the completed write succeeded.
C11_RaisesAfterRecording ==
    [][\A c \in CallIds :
          Finishes(c)
              => /\ calls'[c].result = "threw"
                     <=> calls[c].cause \in {"provider", "parse", "write"}
                 /\ calls'[c].result = "returned"
                     <=> (calls[c].pc = "completing" /\ calls[c].cause = "")
                 /\ (calls'[c].result = "threw" /\ calls'[c].lastApplied)
                        => /\ documents'[DocOf(c)].status = Str("error")
                           /\ documents'[DocOf(c)].error = Str(calls[c].err)]_vars

C11_Witness ==
    \E c \in CallIds :
        /\ calls[c].pc = "done"
        /\ calls[c].result = "threw"
        /\ calls[c].cause = "provider"
        /\ calls[c].lastApplied
        /\ calls[c].doc \in DOMAIN documents
        /\ documents[calls[c].doc].status = Str("error")

\* C12: generateBothContracts has both requests out at the same time, returns
\* {openAI, gemini} made of the texts of the two calls only when both calls
\* have succeeded, and fails whenever one of the two calls fails; it returns
\* no result made of one call's text only.
C12_BothOrFailure ==
    [][/\ (gen.pc # "running" /\ gen'.pc = "running")
            => (gen'.openai = "pending" /\ gen'.gemini = "pending")
       /\ gen'.pc = "returned"
            => /\ gen'.openai = "ok"
               /\ gen'.gemini = "ok"
               /\ gen'.versions = [openAI |-> gen'.openaiText, gemini |-> gen'.geminiText]
               /\ gen'.versions.openAI.t = "string"
               /\ gen'.versions.gemini.t = "string"
       /\ (gen'.openai = "failed" \/ gen'.gemini = "failed") => gen'.pc = "threw"
       /\ gen'.pc # "returned" => gen'.versions = NoVersions]_vars

C12_Witness ==
    /\ gen.pc = "returned"
    /\ gen.versions = [openAI |-> Str("OpenAI draft"), gemini |-> Str("Gemini draft")]
    /\ ui.generated
    /\ ui.contractVersions = gen.versions

\* C13: every row inserted by createContract, saveContract or createDocument
\* has the user_id of the session's user, and the user_id in the caller's
\* data neither reaches the row nor keeps a signed-in user's contract from
\* being inserted.
C13_InsertedRowsOwnedBySession ==
    [][/\ \A d \in DOMAIN documents' \ DOMAIN documents :
              session # NoUser /\ documents'[d].user_id = session
       /\ \A k \in DOMAIN contracts' \ DOMAIN contracts :
              session # NoUser /\ contracts'[k].user_id = session
       /\ \A k \in ContractIds, data \in ContractDataInputs :
              (/\ session # NoUser
               /\ CreateContract(k, data, TRUE) \/ SaveContract(k, data, TRUE))
                  => (k \in DOMAIN contracts' /\ contracts'[k].user_id = session)]_vars

C13_Witness ==
    /\ session = "u1"
    /\ lastOp.op = "saveContract"
    /\ ~lastOp.failed
    /\ \E k \in DOMAIN contracts : contracts[k].user_id = "u1"
    /\ creation.kind = "createDocument"
    /\ creation.outcome = "returned"
    /\ creation.doc \in DOMAIN documents
    /\ documents[creation.doc].user_id = "u1"

\* A findings column without findings: NULL or the empty array.
NoFindings(fv) == fv.t = "null" \/ (fv.t = "array" /\ Len(fv.elems) = 0)

\* C14: every document row is inserted with status analyzing and without
\* findings, whatever the caller passes to createDocument.
C14_CreatedAnalyzingWithoutFindings ==
    [][\A d \in DOMAIN documents' \ DOMAIN documents :
          /\ documents'[d].status = Str("analyzing")
          /\ NoFindings(documents'[d].findings)]_vars

\* C17: a document creation gives the created record, still in status
\* analyzing, to its caller before the analysis it started has finished,
\* and it fails only when the record was not inserted, never because the
\* analysis failed.
C17_CreationDetached ==
    [][creation' # creation
          => /\ creation'.outcome = "returned"
                  => /\ creation'.doc \in DOMAIN documents'
                     /\ calls'[creation'.call].pc # "done"
                     /\ documents'[creation'.doc].status = Str("analyzing")
             /\ creation'.outcome = "threw"
                  => creation'.doc \notin DOMAIN documents']_vars

\* The four analysis columns of a row all hold a value, or none does (an
\* empty findings array counts as none).
AnalysisPresent(row) ==
    /\ row.risk_level.t # "null"
    /\ row.risk_score.t # "null"
    /\ row.findings.t = "array"
    /\ row.recommendations.t # "null"

AnalysisAbsent(row) ==
    /\ row.risk_level.t = "null"
    /\ row.risk_score.t = "null"
    /\ NoFindings(row.findings)
    /\ row.recommendations.t = "null"

\* C15: in every state of a document, risk_level, risk_score, findings and
\* recommendations are present when the status is completed and absent
\* otherwise, and the error message is present when the status is error and
\* absent otherwise.
C15_FieldsFollowStatus ==
    \A d \in DOMAIN documents :
        /\ IF documents[d].status = Str("completed")
           THEN AnalysisPresent(documents[d])
           ELSE AnalysisAbsent(documents[d])
        /\ documents[d].status = Str("error") <=> documents[d].error.t # "null"

\* Call c is under way: a step changes it without starting it anew.
SameCall(c) == ~CanStart(c)

\* C18: a call of analyzeDocument, generateContractWithOpenAI or
\* generateContractWithGemini sends one request to the provider, its first
\* and only one, and after a provider failure it sends none; further
\* requests come from calls that are started anew.
C18_OneRequestPerCall ==
    [][/\ \A c \in CallIds :
              /\ calls'[c].requests <= 1
              /\ calls'[c].pc \in {"generating", "completing"} => calls'[c].requests = 1
              /\ calls'[c].result = "returned" => calls'[c].requests = 1
              /\ (SameCall(c) /\ calls'[c].requests # calls[c].requests)
                    => (calls[c].pc = "marking" /\ calls[c].requests = 0)
              /\ (SameCall(c) /\ calls[c].cause = "provider")
                    => calls'[c].requests = calls[c].requests
       /\ gen'.openaiRequests <= 1
       /\ gen'.geminiRequests <= 1
       /\ gen'.openai # "none" => gen'.openaiRequests = 1
       /\ gen'.gemini # "none" => gen'.geminiRequests = 1
       /\ (gen'.openaiRequests # gen.openaiRequests \/ gen'.geminiRequests # gen.geminiRequests)
             => (gen.pc # "running" /\ gen'.pc = "running")]_vars

C18_Witness ==
    /\ \E c \in CallIds :
           /\ calls[c].pc = "done"
           /\ calls[c].cause = "provider"
           /\ calls[c].requests = 1
    /\ gen.pc = "threw"
    /\ gen.openai = "failed"
    /\ gen.openaiRequests = 1

\* C19: a provider call whose response holds no choices or candidates fails
\* with an error and gives no text, in analyzeDocument and in both contract
\* generation functions.
C19_EmptyResponseFails ==
    [][/\ \A c \in CallIds, throws \in BOOLEAN :
              ProviderEmpty(c, throws)
                  => (calls'[c].cause = "provider" /\ calls'[c].text = <<>>)
       /\ \A resp \in OpenAIResponses :
              (resp.choices \in {"missing", "empty"} /\ OpenAIRespond(resp))
                  => (gen'.openai = "failed" /\ gen'.openaiText = Undefined)
       /\ \A resp \in GeminiResponses, throws \in BOOLEAN :
              (resp.candidates = "none" /\ GeminiRespond(resp, throws))
                  => (gen'.gemini = "failed" /\ gen'.geminiText = Undefined)]_vars

\* C20: when the decoded object's findings field is a sequence, normalization
\* succeeds and yields a result, whatever the elements of findings and the
\* other fields are.
C20_NormalizationSucceeds ==
    [][(NormalizeStep /\ nin.findings.t = "array") => nout'.ok]_vars

\* The draft the user has selected in the preview.
ChosenContent == ui.contractVersions[ui.selectedVersion].s

\* C16: in the contract creation flow one contract record is written, and
\* every contract record written holds the draft the user selected; no record
\* with other content is written.
C16_OneFinalRecord ==
    [][/\ \A k \in DOMAIN contracts' \ DOMAIN contracts :
              /\ ui.generated
              /\ ui.selectedVersion # ""
              /\ contracts'[k].content = ChosenContent
       /\ ui'.writes <= 1]_vars

\* The message of the step of call c that failed: the provider's error, or
\* the error thrown inside the try block of the parse.
StepMessage(c) ==
    IF calls[c].cause = "parse" THEN ParseOf(impl, calls[c].text).inner ELSE calls[c].err

\* C21: when analyzeDocument fails in the provider call or in the parse, the
\* error field it writes to the document is the message of the failing step:
\* a missing JSON object, a malformed one and an invalid findings format are
\* recorded with their own messages.
C21_ErrorIsStepMessage ==
    [][\A c \in CallIds :
          (Finishes(c) /\ calls[c].cause \in {"provider", "parse"} /\ calls'[c].lastApplied)
              => documents'[DocOf(c)].error = Str(StepMessage(c))]_vars

\* C22: a document's status changes to completed or to error only from
\* analyzing, and a completed or error document changes status only by going
\* back to analyzing, whatever the interleaving of the calls on it.
C22_TerminalOnlyFromAnalyzing ==
    [][\A d \in DOMAIN documents \cap DOMAIN documents' :
          documents'[d].status # documents[d].status
              => /\ documents'[d].status \in TerminalStatuses
                        => documents[d].status = Str("analyzing")
                 /\ documents[d].status \in TerminalStatuses
                        => documents'[d].status = Str("analyzing")]_vars

\* Another call than c is under way on the same document.
Concurrent(c) ==
    \E o \in CallIds \ {c} : ~CanStart(o) /\ calls[o].doc = calls[c].doc

\* C23: when two analyzeDocument calls run on the same document at once,
\* neither is blocked or rejected: a new call can start and every step of a
\* call under way can be taken.  Each call's write is applied as it comes,
\* so the document's status is the one of the write applied last.
C23_LastWriterWins ==
    [][\A c \in CallIds :
          /\ CanStart(c) => ENABLED AnalyzeStart(c, 1)
          /\ calls[c].pc = "marking" => ENABLED WriteAnalyzing(c, TRUE)
          /\ calls[c].pc = "generating" => ENABLED ProviderFail(c)
          /\ calls[c].pc = "completing" => ENABLED (\E ok \in BOOLEAN : WriteCompleted(c, ok))
          /\ calls[c].pc = "failing" => ENABLED WriteError(c, TRUE)
          /\ (Concurrent(c) /\ WriteApplies(c, TRUE))
                => /\ (calls[c].pc = "marking" /\ WriteAnalyzing(c, TRUE))
                         => documents'[calls[c].doc].status = Str("analyzing")
                   /\ (calls[c].pc = "completing" /\ WriteCompleted(c, TRUE))
                         => documents'[calls[c].doc].status = Str("completed")
                   /\ (calls[c].pc = "failing" /\ WriteError(c, TRUE))
                         => documents'[calls[c].doc].status = Str("error")]_vars

C23_Witness ==
    /\ calls[1].doc = calls[2].doc
    /\ calls[1].pc = "failing"
    /\ calls[2].pc = "done"
    /\ calls[2].result = "returned"
    /\ calls[2].lastApplied
    /\ documents[calls[1].doc].status = Str("completed")
    /\ DocVisible(calls[1].doc)

UnderWay(d) == \E c \in CallIds : calls[c].doc = d /\ ~CanStart(c) /\ calls[c].pc # "stopped"

\* Every call that was under way on document d has stopped by the end of the
\* step.
AllStopped(d) ==
    \A c \in CallIds : (calls[c].doc = d /\ ~CanStart(c)) => calls'[c].pc = "stopped"

\* C25 as stated: once the process running analyzeDocument has stopped between
\* the analyzing write and the terminal write, and no retry follows, the
\* document's status stays analyzing.
C25_Original_StaysAnalyzing ==
    [][\A d \in DOMAIN documents \cap DOMAIN documents' :
          (Stopped(d) /\ documents[d].status = Str("analyzing"))
              => documents'[d].status = Str("analyzing")]_vars

\* C25: once the process running analyzeDocument has stopped between the
\* analyzing write and the terminal write, and no retry follows, the
\* document's status stays analyzing in every step except the terminal write
\* of another call that is under way on the document and an updateDocument
\* that sets its status: the program has no timeout or reconciliation step.
C25_StaysAnalyzing ==
    [][\A d \in DOMAIN documents \cap DOMAIN documents' :
          (/\ Stopped(d)'
           /\ documents[d].status = Str("analyzing")
           /\ AllStopped(d)
           /\ ~\E p \in StatusUpdateInputs : UpdateDocument(d, p))
              => documents'[d].status = Str("analyzing")]_vars

C25_Witness ==
    \E d \in DOMAIN documents :
        /\ Stopped(d)
        /\ ~UnderWay(d)
        /\ documents[d].status = Str("analyzing")
        /\ DocVisible(d)

\* Call c makes one of the writes of analyzeDocument in this step.
WriteStep(c) ==
    /\ calls[c].pc \in {"marking", "completing", "failing"}
    /\ calls'[c].pc # calls[c].pc

\* C26: a write of analyzeDocument(documentId, content) changes nothing but
\* the status, risk_level, risk_score, findings, recommendations and error of
\* the document with the given id: that document keeps its title, content and
\* user_id, no other document changes and none appears or disappears.
C26_AnalyzeFrame ==
    [][\A c \in CallIds :
          WriteStep(c)
              => /\ DOMAIN documents' = DOMAIN documents
                 /\ \A d \in DOMAIN documents :
                       IF d = calls[c].doc
                       THEN /\ documents'[d].title = documents[d].title
                            /\ documents'[d].content = documents[d].content
                            /\ documents'[d].user_id = documents[d].user_id
                       ELSE documents'[d] = documents[d]]_vars

C26_Witness ==
    \E c \in CallIds, d \in DOMAIN documents :
        /\ calls[c].pc = "done"
        /\ calls[c].lastApplied
        /\ calls[c].doc \in DOMAIN documents
        /\ d # calls[c].doc
        /\ documents[calls[c].doc].status = Str("completed")
        /\ documents[d].status # Str("completed")

\* C27: createContract, saveContract and the createDocument that checks the
\* session insert nothing when no user is signed in or when the request
\* fails: the call fails to its caller and both tables are unchanged.
C27_NoInsertWithoutUser ==
    [][/\ \A k \in ContractIds, data \in ContractDataInputs, ok \in BOOLEAN :
              ((session = NoUser \/ ~ok)
                  /\ (CreateContract(k, data, ok) \/ SaveContract(k, data, ok)))
                  => (contracts' = contracts /\ documents' = documents /\ lastOp'.failed)
       /\ \A d \in DocIds, data \in DocumentDataInputs, ok \in BOOLEAN :
              ((session = NoUser \/ ~ok) /\ CreateDocument(d, data, ok))
                  => (contracts' = contracts /\ documents' = documents
                      /\ lastOp'.failed)]_vars

C27_Witness ==
    /\ session = NoUser
    /\ lastOp.user = NoUser
    /\ lastOp.op = "saveContract"
    /\ lastOp.failed
    /\ contracts = EmptyTable
    /\ documents # EmptyTable

\* C28: while a contract creation is in progress a further submit of the last
\* field, by the button or by the Enter key, starts no second createContract
\* call: at most one call is in flight per form.
C28_OneCreateInFlight == form.inflight <= 1

\* C29: for every intensity n in 0..100 typed in the last field and submitted,
\* the contract passed to createContract has the string form of n as its
\* intensity, n = 0 included.
C29_IntensityPassed ==
    [][\A n \in IntensityInputs \cap 0..IntensityMax, via \in {"button", "enter"} :
          (form.intensity = Num(n) /\ SubmitLast(via))
              => form'.passed = Append(form.passed, NumToString(n))]_vars

\* C30: in the contract preview a version is selected only when both
\* generated drafts are held; while the preview is open with no version
\* selected no contract is written; a save writes exactly the draft of the
\* selected version; and a failed generation leaves no draft held and
\* isGenerating false.
C30_PreviewSelection ==
    [][/\ ui'.selectedVersion # ""
             => /\ ui'.generated
                /\ ui'.contractVersions.openAI.t = "string"
                /\ ui'.contractVersions.gemini.t = "string"
       /\ (ui.showPreview /\ ui.selectedVersion = "") => contracts' = contracts
       /\ \A k \in FlowContractIds, ok \in BOOLEAN :
             (HandleSave(k, ok) /\ ~lastOp'.failed)
                 => /\ DOMAIN contracts' = DOMAIN contracts \cup {k}
                    /\ contracts'[k].content = ChosenContent
       /\ (ui.isGenerating /\ ~ui'.isGenerating /\ gen.pc = "threw" /\ ui'.showPreview)
             => /\ ui'.contractVersions = NoVersions
                /\ ~ui'.generated]_vars

C30_Witness ==
    /\ lastOp.op = "saveContract"
    /\ ~lastOp.failed
    /\ \E k \in DOMAIN contracts : contracts[k].content # PlaceholderContent

====
